---- MODULE Spec2Model ----
(***************************************************************************)
(* Model of src/app/main.py: one run of main() of the market predictions   *)
(* dashboard over a read-only database.  load_data splits the price        *)
(* history, loads and normalizes the three models' forecasts and their     *)
(* latest metrics; the tabs then show the split statistics, the test       *)
(* period bands (plot_test_predictions) and the win-rate edges             *)
(* (plot_win_rate_comparison).                                             *)
(***************************************************************************)
EXTENDS Integers, Sequences, FiniteSets

(***************************************************************************)
(* IEEE-754 binary64 product of an integer and a fraction constant, as     *)
(* Python evaluates  total_days * 0.7 : the exact product of the two       *)
(* significands, rounded once to 53 bits (nearest, ties to even), and      *)
(* int(), which truncates.  Significands are little-endian bit sequences   *)
(* so that no intermediate value leaves TLC's integers.                    *)
(***************************************************************************)

\* the four bits of one hexadecimal digit, least significant first
HexLE(h) == << h % 2, (h \div 2) % 2, (h \div 4) % 2, (h \div 8) % 2 >>

RECURSIVE HexToBits(_)
\* hex digits (most significant first) to little-endian bits
HexToBits(hs) ==
    IF hs = << >> THEN << >>
    ELSE HexToBits(Tail(hs)) \o HexLE(Head(hs))

RECURSIVE StripTop(_)
\* drop leading (most significant) zero bits
StripTop(bs) ==
    IF bs = << >> \/ bs[Len(bs)] = 1 THEN bs
    ELSE StripTop(SubSeq(bs, 1, Len(bs) - 1))

\* float.hex(0.7) = 0x1.6666666666666p-1 : significand 0x16666666666666, times 2^-53
TrainFraction ==
    [m |-> StripTop(HexToBits(<< 1, 6, 6, 6, 6, 6, 6, 6, 6, 6, 6, 6, 6, 6 >>)),
     e |-> 0 - 53]

\* float.hex(0.9) = 0x1.ccccccccccccdp-1 : significand 0x1ccccccccccccd, times 2^-53
ValFraction ==
    [m |-> StripTop(HexToBits(<< 1, 12, 12, 12, 12, 12, 12, 12, 12, 12, 12, 12, 12, 13 >>)),
     e |-> 0 - 53]

\* bits of the binary64 significand
Precision == 53

RECURSIVE MulBits(_, _, _)
\* little-endian bits of  n * value(bs) + carry
MulBits(bs, n, carry) ==
    IF bs = << >> THEN
        IF carry = 0 THEN << >>
        ELSE << carry % 2 >> \o MulBits(<< >>, n, carry \div 2)
    ELSE LET t == n * Head(bs) + carry
         IN  << t % 2 >> \o MulBits(Tail(bs), n, t \div 2)

RECURSIVE IncBits(_)
\* little-endian bits of  value(bs) + 1
IncBits(bs) ==
    IF bs = << >> THEN << 1 >>
    ELSE IF Head(bs) = 0 THEN << 1 >> \o Tail(bs)
    ELSE << 0 >> \o IncBits(Tail(bs))

RECURSIVE BitsToInt(_)
BitsToInt(bs) ==
    IF bs = << >> THEN 0 ELSE Head(bs) + 2 * BitsToInt(Tail(bs))

\* round an exact value  value(bs) * 2^e  to Precision bits, ties to even
RoundBits(bs, e) ==
    LET L == Len(bs)
    IN  IF L <= Precision THEN [m |-> bs, e |-> e]
        ELSE
          LET s      == L - Precision
              kept   == SubSeq(bs, s + 1, L)
              guard  == bs[s]
              sticky == \E i \in 1..(s - 1) : bs[i] = 1
              up     == guard = 1 /\ (sticky \/ kept[1] = 1)
              r      == IF up THEN IncBits(kept) ELSE kept
          IN  IF Len(r) > Precision
              THEN [m |-> SubSeq(r, 2, Len(r)), e |-> e + s + 1]
              ELSE [m |-> r, e |-> e + s]

\* n * f  in binary64, n a non-negative integer below 2^53
FloatMulInt(n, f) == RoundBits(StripTop(MulBits(f.m, n, 0)), f.e)

\* int(x) for a non-negative binary64 x below 2^31
TruncFloat(x) ==
    IF x.e >= 0 THEN BitsToInt(x.m)     \* not reached below 2^53
    ELSE IF 0 - x.e >= Len(x.m) THEN 0
    ELSE BitsToInt(SubSeq(x.m, 1 - x.e, Len(x.m)))

(***************************************************************************)
(* Floating-point columns.  A value is NaN, signed infinity, or the exact  *)
(* real  a + s * sqrt(q)  with a, q rational and s in {-1, 0, 1}: prices,  *)
(* returns and relative errors are rationals (s = 0), the rolling std is a *)
(* square root.  Rationals are pairs <<n, d>> in lowest terms, d > 0.      *)
(* Rounding of the binary64 arithmetic is not modelled here.               *)
(***************************************************************************)

Abs(i) == IF i < 0 THEN 0 - i ELSE i

Sign(i) == IF i < 0 THEN 0 - 1 ELSE IF i = 0 THEN 0 ELSE 1

RECURSIVE GCD(_, _)
GCD(a, b) == IF b = 0 THEN a ELSE GCD(b, a % b)

Rat(n, d) ==
    LET g == GCD(Abs(n), Abs(d))
    IN  << Sign(d) * (n \div g), Abs(d) \div g >>

RatZero == << 0, 1 >>

RatAdd(x, y) == Rat(x[1] * y[2] + y[1] * x[2], x[2] * y[2])

RatNeg(x) == << 0 - x[1], x[2] >>

RatSub(x, y) == RatAdd(x, RatNeg(y))

RatMul(x, y) == Rat(x[1] * y[1], x[2] * y[2])

\* x / y for y # 0
RatDiv(x, y) == Rat(x[1] * y[2], x[2] * y[1])

RatLeq(x, y) == x[1] * y[2] <= y[1] * x[2]

RECURSIVE ISqrtFrom(_, _)
\* integer Newton iteration from x >= sqrt(n), n > 0
ISqrtFrom(n, x) ==
    LET y == (x + n \div x) \div 2
    IN  IF y >= x THEN x ELSE ISqrtFrom(n, y)

\* floor of the square root of n >= 0
ISqrt(n) == IF n = 0 THEN 0 ELSE ISqrtFrom(n, n)

IsSquare(n) == ISqrt(n) * ISqrt(n) = n

NaN == [k |-> "nan", a |-> RatZero, s |-> 0, q |-> RatZero]

Inf(sgn) == [k |-> "inf", a |-> << sgn, 1 >>, s |-> 0, q |-> RatZero]

\* the real  a + s * sqrt(q), in canonical form
Real(a, s, q) ==
    IF s = 0 \/ q[1] = 0 THEN [k |-> "num", a |-> a, s |-> 0, q |-> RatZero]
    ELSE IF IsSquare(q[1]) /\ IsSquare(q[2])
    THEN [k |-> "num",
          a |-> RatAdd(a, Rat(s * ISqrt(q[1]), ISqrt(q[2]))),
          s |-> 0, q |-> RatZero]
    ELSE [k |-> "num", a |-> a, s |-> s, q |-> q]

\* the float of an integer, and of a fraction n/d
Flt(n) == Real(Rat(n, 1), 0, RatZero)

Frac(n, d) == Real(Rat(n, d), 0, RatZero)

IsNum(x) == x.k = "num"

IsRational(x) == x.k = "num" /\ x.s = 0

IsZero(x) == IsRational(x) /\ x.a[1] = 0

\* sign of a rational float
FSign(x) == Sign(x.a[1])

\* x + y, one of the two rational
FAdd(x, y) ==
    CASE x.k = "nan" \/ y.k = "nan" -> NaN
      [] x.k = "inf" /\ y.k = "inf" -> IF x.a = y.a THEN x ELSE NaN
      [] x.k = "inf" -> x
      [] y.k = "inf" -> y
      [] y.s = 0 -> Real(RatAdd(x.a, y.a), x.s, x.q)
      [] x.s = 0 -> Real(RatAdd(x.a, y.a), y.s, y.q)

FNeg(x) ==
    CASE x.k = "nan" -> NaN
      [] x.k = "inf" -> Inf(0 - x.a[1])
      [] OTHER -> Real(RatNeg(x.a), 0 - x.s, x.q)

FSub(x, y) == FAdd(x, FNeg(y))

\* c * y for a rational c
Scale(c, y) == Real(RatMul(c, y.a), Sign(c[1]) * y.s, RatMul(RatMul(c, c), y.q))

\* x * y, one of the two rational
FMul(x, y) ==
    CASE x.k = "nan" \/ y.k = "nan" -> NaN
      [] x.k = "inf" /\ y.k = "inf" -> Inf(x.a[1] * y.a[1])
      [] x.k = "inf" -> IF IsZero(y) THEN NaN ELSE Inf(x.a[1] * FSign(y))
      [] y.k = "inf" -> IF IsZero(x) THEN NaN ELSE Inf(y.a[1] * FSign(x))
      [] x.s = 0 -> Scale(x.a, y)
      [] y.s = 0 -> Scale(y.a, x)

\* x / y for rational operands, numpy's division: x/0 is +-inf, 0/0 is NaN
FDiv(x, y) ==
    CASE x.k = "nan" \/ y.k = "nan" -> NaN
      [] x.k = "inf" /\ y.k = "inf" -> NaN
      [] x.k = "inf" -> Inf(x.a[1] * (IF FSign(y) < 0 THEN 0 - 1 ELSE 1))
      [] y.k = "inf" -> Flt(0)
      [] IsZero(y) -> IF IsZero(x) THEN NaN ELSE Inf(FSign(x))
      [] OTHER -> Real(RatDiv(x.a, y.a), 0, RatZero)

\* sqrt of a rational float x >= 0
FSqrt(x) == IF x.k = "nan" THEN NaN ELSE Real(RatZero, 1, x.a)

\* x <= y for numbers, one of the two rational (false when either is NaN)
FLeq(x, y) ==
    IF ~(IsNum(x) /\ IsNum(y)) THEN FALSE
    ELSE IF x.s = 0 /\ y.s = 0 THEN RatLeq(x.a, y.a)
    ELSE IF y.s = 0 THEN
        \* s * sqrt(q) <= t
        LET t == RatSub(y.a, x.a)
        IN  IF x.s = 1 THEN t[1] >= 0 /\ RatLeq(x.q, RatMul(t, t))
            ELSE t[1] >= 0 \/ RatLeq(RatMul(t, t), x.q)
    ELSE
        \* t <= s * sqrt(q)
        LET t == RatSub(x.a, y.a)
        IN  IF y.s = 1 THEN t[1] <= 0 \/ RatLeq(RatMul(t, t), y.q)
            ELSE t[1] <= 0 /\ RatLeq(y.q, RatMul(t, t))

(***************************************************************************)
(* The database (read-only input of a run) and the program state.          *)
(*   db.market   rows [date, close] of raw_market_data, ordered by date    *)
(*   db.tables   per model: present (the table can be read), cols (its     *)
(*               columns besides date), rows (a set of rows, one per date) *)
(*   db.perf     rows [model, date, win_rate, uncond_win_rate] of          *)
(*               model_performance                                         *)
(* A raw numeric field is a float, or Text when it does not parse.         *)
(***************************************************************************)

VARIABLES
    db,            \* the database contents
    pc,            \* position of main()
    conn,          \* the sqlite3 connection: "none", "open" or "closed"
    acquired,      \* number of sqlite3.connect calls of the run
    market_data,   \* rows [date, close, split]
    train_end,
    val_end,
    model_i,       \* position of load_data's loop over the models
    predictions,   \* model -> [loaded, cols, rows]
    metrics,       \* model -> sequence of at most one summary row
    delivered,     \* load_data returned its three results to main
    notices,       \* st.warning / st.error messages shown, in order
    split_stats,   \* the three st.metric sample counts of tab 1
    bands,         \* model -> band points [date, predicted, error, std,
                   \* upper, lower]
    edges          \* bars of the win-rate chart: [model, edge]

vars == << db, pc, conn, acquired, market_data, train_end, val_end, model_i,
           predictions, metrics, delivered, notices, split_stats, bands, edges >>

\* load_data's loop order (line 47); dict order of predictions and metrics
ModelOrder == << "arima", "prophet", "dnn" >>

Models == { ModelOrder[i] : i \in 1..Len(ModelOrder) }

Text == [k |-> "text", a |-> RatZero, s |-> 0, q |-> RatZero]

NumericCols == { "predicted_value", "confidence_lower", "confidence_upper" }

\* shift(-3) of line 77: the prediction horizon in observations
Horizon == 3

\* rolling(window=20, min_periods=1) of line 179
Window == 20

MinPeriods == 1

\* pandas' default delta degrees of freedom of Rolling.std
Ddof == 1

RECURSIVE SortByDate(_)
\* ORDER BY date of a set of rows with distinct dates
SortByDate(S) ==
    IF S = {} THEN << >>
    ELSE LET first == CHOOSE r \in S : \A o \in S : r.date <= o.date
         IN  << first >> \o SortByDate(S \ {first})

(***************************************************************************)
(* load_data, lines 30-41: the split of the price history by position.     *)
(***************************************************************************)

\* int(total_days * 0.7)
TrainEnd(n) == TruncFloat(FloatMulInt(n, TrainFraction))

\* int(total_days * 0.9)
ValEnd(n) == TruncFloat(FloatMulInt(n, ValFraction))

\* lines 36-38; iloc[a:b] covers the 1-based positions a+1..b
SplitLabels(n, te, ve) ==
    LET s0 == [i \in 1..n |-> "train"]
        s1 == [i \in 1..n |-> IF te < i /\ i <= ve THEN "validation" ELSE s0[i]]
    IN  [i \in 1..n |-> IF ve < i THEN "test" ELSE s1[i]]

\* market_data after line 41 for the rows read at line 17
SplitMarket(rows) ==
    LET n   == Len(rows)
        lab == SplitLabels(n, TrainEnd(n), ValEnd(n))
    IN  [i \in 1..n |-> [date |-> rows[i].date, close |-> rows[i].close,
                         split |-> lab[i]]]

(***************************************************************************)
(* load_data, lines 47-100: one model's forecasts and latest metrics.      *)
(***************************************************************************)

\* position of date d in market data md, 0 when absent
PosOf(md, d) ==
    IF \E i \in 1..Len(md) : md[i].date = d
    THEN CHOOSE i \in 1..Len(md) : md[i].date = d
    ELSE 0

\* pd.to_numeric(errors='coerce')
ToNumeric(x) == IF x.k = "text" THEN NaN ELSE x

\* lines 67-70: coerce the numeric columns that are present
Coerce(row, cols) ==
    [row EXCEPT !.predicted_value =
                    IF "predicted_value" \in cols THEN ToNumeric(@) ELSE @,
                !.confidence_lower =
                    IF "confidence_lower" \in cols THEN ToNumeric(@) ELSE @,
                !.confidence_upper =
                    IF "confidence_upper" \in cols THEN ToNumeric(@) ELSE @]

\* a shift that falls back to the row's own close where no later one exists
ShiftedCloseOrOwn(md) ==
    [i \in 1..Len(md) |->
        IF i + Horizon <= Len(md) THEN Flt(md[i + Horizon].close)
        ELSE Flt(md[i].close)]

\* line 77: market_data['close'].shift(-3), by position
ShiftedClose(md) ==
    [i \in 1..Len(md) |->
        IF i + Horizon <= Len(md) THEN Flt(md[i + Horizon].close) ELSE NaN]

\* line 78: reindex to a forecast date
ClosePriceAt(md, d) ==
    IF PosOf(md, d) = 0 THEN NaN ELSE ShiftedClose(md)[PosOf(md, d)]

\* lines 81-83 for one field: close_prices * (1 + value / 100)
ReturnToPrice(close_price, value) ==
    FMul(close_price, FAdd(Flt(1), FDiv(value, Flt(100))))

\* lines 73-83 on one row
NormalizeDnn(md, row) ==
    LET cp == ClosePriceAt(md, row.date)
    IN  [row EXCEPT !.predicted_value  = ReturnToPrice(cp, @),
                    !.confidence_upper = ReturnToPrice(cp, @),
                    !.confidence_lower = ReturnToPrice(cp, @)]

\* lines 50-60: SELECT * ... WHERE date >= test_start ORDER BY date
QueryPredictions(table, test_start) ==
    SortByDate({ r \in table.rows : r.date >= test_start })

\* lines 61-85: the frame stored in predictions[model]
BuildPredictions(md, model, table, test_start) ==
    LET raw == QueryPredictions(table, test_start)
        num == [i \in 1..Len(raw) |-> Coerce(raw[i], table.cols)]
    IN  [loaded |-> TRUE,
         cols   |-> table.cols,
         rows   |-> IF model = "dnn"
                    THEN [i \in 1..Len(num) |-> NormalizeDnn(md, num[i])]
                    ELSE num]

\* lines 88-99: ... WHERE model = ... ORDER BY date DESC LIMIT 1
QueryMetrics(perf, model) ==
    LET mine == { r \in perf : r.model = model }
    IN  IF mine = {} THEN << >>
        ELSE << CHOOSE r \in mine : \A o \in mine : o.date <= r.date >>

\* what makes one pass of the loop raise: index[val_end] out of bounds
\* (line 49), the read of a missing table (line 50), a missing column of
\* the return-denominated frame (lines 81-83)
LoadModelRaises(md, ve, model, table) ==
    \/ ve >= Len(md)
    \/ ~table.present
    \/ model = "dnn" /\ ~(NumericCols \subseteq table.cols)

(***************************************************************************)
(* plot_test_predictions, lines 131-207: the test-period bands.            *)
(***************************************************************************)

\* line 137: market_data[market_data['split'] == 'test']
TestData(md) == SelectSeq(md, LAMBDA r : r.split = "test")

\* lines 161-165: forecasts within the test period that are not future ones
TestPred(test_data, frame) ==
    SelectSeq(frame.rows,
              LAMBDA r : /\ r.date >= test_data[1].date
                         /\ r.date <= test_data[Len(test_data)].date
                         /\ ("is_future" \in frame.cols => ~r.is_future))

\* line 177: test_data['close'].reindex(test_pred.index)
AlignedClose(test_data, d) ==
    IF PosOf(test_data, d) = 0 THEN NaN
    ELSE Flt(test_data[PosOf(test_data, d)].close)

\* line 178: (actual - predicted) / predicted
RelativeError(actual, predicted) == FDiv(FSub(actual, predicted), predicted)

RECURSIVE SumOf(_, _)
\* sum of f[j] over the finite set of positions J
SumOf(f, J) ==
    IF J = {} THEN Flt(0)
    ELSE LET j == CHOOSE x \in J : TRUE
         IN  FAdd(f[j], SumOf(f, J \ {j}))

\* the observations of the window ending at row i; pandas' rolling turns
\* infinities into NaN and skips NaN
WindowObs(errors, i) ==
    { j \in 1..i : j > i - Window /\ IsRational(errors[j]) }

\* sample variance of the observations at positions J, |J| > Ddof
SampleVar(errors, J) ==
    LET n  == Cardinality(J)
        sq == [j \in J |-> FMul(errors[j], errors[j])]
        sm == SumOf(errors, J)
    IN  FDiv(FSub(SumOf(sq, J), FDiv(FMul(sm, sm), Flt(n))), Flt(n - Ddof))

\* line 179: errors.rolling(window=20, min_periods=1).std() at row i
RollingStd(errors, i) ==
    LET J == WindowObs(errors, i)
    IN  IF Cardinality(J) >= MinPeriods /\ Cardinality(J) > Ddof
        THEN FSqrt(SampleVar(errors, J))
        ELSE NaN

\* line 182
UpperBand(predicted, std) == FMul(predicted, FAdd(Flt(1), FMul(Flt(2), std)))

\* line 183
LowerBand(predicted, std) == FMul(predicted, FSub(Flt(1), FMul(Flt(2), std)))

\* lines 176-183 for the filtered forecasts of one model
BandOf(test_data, test_pred) ==
    LET errors == [i \in 1..Len(test_pred) |->
                      RelativeError(AlignedClose(test_data, test_pred[i].date),
                                    test_pred[i].predicted_value)]
    IN  [i \in 1..Len(test_pred) |->
            LET p  == test_pred[i].predicted_value
                sd == RollingStd(errors, i)
            IN  [date |-> test_pred[i].date, predicted |-> p,
                 error |-> errors[i], std |-> sd,
                 upper |-> UpperBand(p, sd), lower |-> LowerBand(p, sd)]]

\* one pass of the loop of line 158: "skip" (nothing to draw), "raise"
\* (test_data.index[0] of an empty test set, or no predicted_value column)
\* or "band"
PlotOutcome(test_data, frame) ==
    IF frame.rows = << >> THEN "skip"
    ELSE IF test_data = << >> THEN "raise"
    ELSE IF TestPred(test_data, frame) = << >> THEN "skip"
    ELSE IF "predicted_value" \notin frame.cols THEN "raise"
    ELSE "band"

RECURSIVE PlotModels(_, _, _, _)
\* the loop of lines 158-193 from position i on; an exception ends the loop
\* (line 194) and keeps what was drawn before it
PlotModels(test_data, preds, i, acc) ==
    IF i > Len(ModelOrder) THEN acc
    ELSE LET m   == ModelOrder[i]
             out == PlotOutcome(test_data, preds[m])
         IN  IF out = "raise" THEN [acc EXCEPT !.failed = TRUE]
             ELSE IF out = "skip" THEN PlotModels(test_data, preds, i + 1, acc)
             ELSE PlotModels(test_data, preds, i + 1,
                     [acc EXCEPT !.bands[m] =
                         BandOf(test_data, TestPred(test_data, preds[m]))])

NoBands == [m \in Models |-> << >>]

PlotTestPredictions(md, preds) ==
    PlotModels(TestData(md), preds, 1, [bands |-> NoBands, failed |-> FALSE])

(***************************************************************************)
(* plot_win_rate_comparison, lines 209-256: the win-rate edges.            *)
(***************************************************************************)

\* the difference taken the other way round
EdgeReversed(row) == FSub(row.uncond_win_rate, row.win_rate)

\* line 223
Edge(row) == FSub(row.win_rate, row.uncond_win_rate)

RECURSIVE WinRateBars(_, _)
\* lines 219-233 from position i of the metrics dict on
WinRateBars(mets, i) ==
    IF i > Len(ModelOrder) THEN << >>
    ELSE LET m == ModelOrder[i]
         IN  (IF mets[m] # << >>
              THEN << [model |-> m, edge |-> Edge(mets[m][1])] >>
              ELSE << >>) \o WinRateBars(mets, i + 1)

\* lines 318-325: the sample count shown for each split
SplitCounts(md) ==
    [s \in {"train", "validation", "test"} |->
        Len(SelectSeq(md, LAMBDA r : r.split = s))]

(***************************************************************************)
(* main(), lines 290-339, one action per step.                             *)
(***************************************************************************)

NotLoaded == [loaded |-> FALSE, cols |-> {}, rows |-> << >>]

NoStats == [s \in {"train", "validation", "test"} |-> 0 - 1]

\* the except clause of line 338: the frame of load_data is gone
RaiseToMain ==
    /\ notices' = Append(notices, "error: loading data")
    /\ pc' = "done"

\* line 295
Connect ==
    /\ pc = "connect"
    /\ conn' = "open"
    /\ acquired' = acquired + 1
    /\ pc' = "load_market"
    /\ UNCHANGED << db, market_data, train_end, val_end, model_i, predictions,
                    metrics, delivered, notices, split_stats, bands, edges >>

\* load_data, lines 17-45
LoadMarket ==
    /\ pc = "load_market"
    /\ market_data' = SplitMarket(db.market)
    /\ train_end' = TrainEnd(Len(db.market))
    /\ val_end' = ValEnd(Len(db.market))
    /\ model_i' = 1
    /\ pc' = "load_models"
    /\ UNCHANGED << db, conn, acquired, predictions, metrics, delivered,
                    notices, split_stats, bands, edges >>

\* load_data, lines 47-100: one pass of the loop over the models
LoadModel ==
    /\ pc = "load_models"
    /\ model_i <= Len(ModelOrder)
    /\ LET m == ModelOrder[model_i]
       IN  IF LoadModelRaises(market_data, val_end, m, db.tables[m])
           THEN /\ RaiseToMain
                /\ UNCHANGED << model_i, predictions, metrics >>
           ELSE /\ predictions' =
                      [predictions EXCEPT ![m] =
                          BuildPredictions(market_data, m, db.tables[m],
                                           market_data[val_end + 1].date)]
                /\ metrics' = [metrics EXCEPT ![m] = QueryMetrics(db.perf, m)]
                /\ model_i' = model_i + 1
                /\ UNCHANGED << pc, notices >>
    /\ UNCHANGED << db, conn, acquired, market_data, train_end, val_end,
                    delivered, split_stats, bands, edges >>

\* line 102 and the assignment of line 298
LoadReturn ==
    /\ pc = "load_models"
    /\ model_i > Len(ModelOrder)
    /\ delivered' = TRUE
    /\ pc' = "check_empty"
    /\ UNCHANGED << db, conn, acquired, market_data, train_end, val_end,
                    model_i, predictions, metrics, notices, split_stats,
                    bands, edges >>

\* lines 300-306
CheckEmpty ==
    /\ pc = "check_empty"
    /\ IF market_data = << >>
       THEN /\ notices' = Append(notices, "warning: no data available")
            /\ pc' = "done"
       ELSE /\ pc' = "tab1"
            /\ UNCHANGED notices
    /\ UNCHANGED << db, conn, acquired, market_data, train_end, val_end,
                    model_i, predictions, metrics, delivered, split_stats,
                    bands, edges >>

\* lines 311-325
ShowSplits ==
    /\ pc = "tab1"
    /\ split_stats' = SplitCounts(market_data)
    /\ pc' = "tab2"
    /\ UNCHANGED << db, conn, acquired, market_data, train_end, val_end,
                    model_i, predictions, metrics, delivered, notices,
                    bands, edges >>

\* lines 327-330
ShowPredictions ==
    /\ pc = "tab2"
    /\ LET fig == PlotTestPredictions(market_data, predictions)
       IN  /\ bands' = fig.bands
           /\ notices' = IF fig.failed
                         THEN Append(notices, "error: plotting predictions")
                         ELSE notices
    /\ pc' = "tab3"
    /\ UNCHANGED << db, conn, acquired, market_data, train_end, val_end,
                    model_i, predictions, metrics, delivered, split_stats,
                    edges >>

\* lines 332-334: display_metrics and its chart
ShowMetrics ==
    /\ pc = "tab3"
    /\ edges' = WinRateBars(metrics, 1)
    /\ notices' = IF \A m \in Models : metrics[m] = << >>
                  THEN Append(notices, "no metrics available")
                  ELSE notices
    /\ pc' = "close"
    /\ UNCHANGED << db, conn, acquired, market_data, train_end, val_end,
                    model_i, predictions, metrics, delivered, split_stats,
                    bands >>

\* line 336
Close ==
    /\ pc = "close"
    /\ conn' = "closed"
    /\ pc' = "done"
    /\ UNCHANGED << db, acquired, market_data, train_end, val_end, model_i,
                    predictions, metrics, delivered, notices, split_stats,
                    bands, edges >>

Next ==
    \/ Connect
    \/ LoadMarket
    \/ LoadModel
    \/ LoadReturn
    \/ CheckEmpty
    \/ ShowSplits
    \/ ShowPredictions
    \/ ShowMetrics
    \/ Close

\* the state of a run before main() starts on database d
Start(d) ==
    /\ db = d
    /\ pc = "connect"
    /\ conn = "none"
    /\ acquired = 0
    /\ market_data = << >>
    /\ train_end = 0
    /\ val_end = 0
    /\ model_i = 0
    /\ predictions = [m \in Models |-> NotLoaded]
    /\ metrics = [m \in Models |-> << >>]
    /\ delivered = FALSE
    /\ notices = << >>
    /\ split_stats = NoStats
    /\ bands = NoBands
    /\ edges = << >>

(***************************************************************************)
(* Bounded families of databases.  Trading days are every other calendar   *)
(* day, so a forecast can fall on a date that is not in the price series.  *)
(***************************************************************************)

\* longest price history of the split family
MaxDays == 100

\* longest price history of the failure and metrics families
SmallDays == 2

\* length of the price history of the forecast family
ForecastDays == 50

\* the closes of this many last rows vary
TailRows == 5

\* most rows of a forecast table
MaxRows == 2

AllCols == NumericCols \cup {"is_future"}

DateOf(i) == 2 * i

\* n rows closing at 100, the last Len(tail) of them at the closes of tail
Market(n, tail) ==
    [i \in 1..n |->
        [date  |-> DateOf(i),
         close |-> IF i > n - Len(tail) THEN tail[i - (n - Len(tail))] ELSE 100]]

Row(d, pv, lo, hi, fut) ==
    [date |-> d, predicted_value |-> pv, confidence_lower |-> lo,
     confidence_upper |-> hi, is_future |-> fut]

Table(cols, rows) == [present |-> TRUE, cols |-> cols, rows |-> rows]

MissingTable == [present |-> FALSE, cols |-> {}, rows |-> {}]

EmptyTable == Table(AllCols, {})

Perf(m, d, win, uncond) ==
    [model |-> m, date |-> d, win_rate |-> win, uncond_win_rate |-> uncond]

Database(market, tables, perf) ==
    [market |-> market, tables |-> tables, perf |-> perf]

\* histories of every length, no forecasts, no metrics
SplitDbs ==
    { Database(Market(n, << >>), [m \in Models |-> EmptyTable], {}) :
        n \in 0..MaxDays }

\* a forecast table in each of its conditions: unreadable, without the
\* optional confidence columns, complete; one row at the last trading day
TableStates(n) ==
    LET r(pv) == Row(DateOf(IF n = 0 THEN 1 ELSE n), Flt(pv), Flt(pv - 1),
                     Flt(pv + 1), FALSE)
    IN  { MissingTable,
          Table({"predicted_value"}, {r(100)}),
          Table(AllCols, {r(100)}) }

FailureDbs ==
    UNION { { Database(Market(n, << >>), tabs,
                       { Perf(m, 1, Flt(55), Flt(50)) : m \in Models }) :
                tabs \in [Models -> TableStates(n)] } :
            n \in 0..SmallDays }

CloseVals == {50, 100}

Tails == [1..TailRows -> CloseVals]

\* dates a forecast row can carry for a history of n days: the first two
\* test days, one of the last three days, a day between two trading days,
\* a day after the history
ForecastDates(n) ==
    { DateOf(ValEnd(n) + 1), DateOf(ValEnd(n) + 2), DateOf(n - 1),
      DateOf(ValEnd(n) + 1) + 1, DateOf(n + 1) }

\* price-denominated rows: a price, zero, a negative value, unparseable text
PriceRows(n) ==
    { Row(d, pv, FSub(pv, Flt(5)), FAdd(pv, Flt(5)), d > DateOf(n)) :
        d \in ForecastDates(n), pv \in { Flt(100), Flt(0), Flt(0 - 100), Text } }

\* return-denominated rows, in percent
ReturnRows(n) ==
    { Row(d, v[1], v[2], v[3], d > DateOf(n)) :
        d \in ForecastDates(n),
        v \in { << Flt(2), Flt(1), Flt(3) >>, << Text, NaN, Flt(0 - 200) >> } }

\* the sets of at most MaxRows rows of R with distinct dates
RowSets(R) ==
    { S \in SUBSET R :
        /\ Cardinality(S) <= MaxRows
        /\ \A x, y \in S : x.date = y.date => x = y }

\* one model with forecasts, the two others with none
OnlyTable(m, rows) ==
    [x \in Models |-> IF x = m THEN Table(AllCols, rows) ELSE EmptyTable]

\* price forecasts of the statistical model
PriceDbs ==
    { Database(Market(ForecastDays, tail), OnlyTable("arima", rows), {}) :
        tail \in Tails, rows \in RowSets(PriceRows(ForecastDays)) }

\* return forecasts of the neural model
ReturnDbs ==
    { Database(Market(ForecastDays, tail), OnlyTable("dnn", rows), {}) :
        tail \in Tails, rows \in RowSets(ReturnRows(ForecastDays)) }

\* per model: no summary row, one row, or an older and a newer one
PerfStates(m) ==
    { {},
      { Perf(m, 1, Flt(55), Flt(50)) },
      { Perf(m, 1, Flt(40), Flt(52)) },
      { Perf(m, 1, Flt(55), Flt(50)), Perf(m, 2, Flt(40), Flt(52)) },
      { Perf(m, 2, Frac(111, 2), Flt(50)), Perf(m, 1, Flt(40), Flt(52)) } }

MetricsDbs ==
    { Database(Market(SmallDays, << >>), [m \in Models |-> EmptyTable],
               pa \cup pp \cup pd) :
        pa \in PerfStates("arima"), pp \in PerfStates("prophet"),
        pd \in PerfStates("dnn") }

\* runs over databases whose forecast tables and columns may be missing
Init == \E d \in FailureDbs : Start(d)

Spec == Init /\ [][Next]_vars

\* runs over price histories of every length
InitSplit == \E d \in SplitDbs : Start(d)

SpecSplit == InitSplit /\ [][Next]_vars

\* runs over the return forecasts of the neural model
InitReturn == \E d \in ReturnDbs : Start(d)

SpecReturn == InitReturn /\ [][Next]_vars

\* runs over the price forecasts of the statistical model
InitPrice == \E d \in PriceDbs : Start(d)

SpecPrice == InitPrice /\ [][Next]_vars

\* runs over the models' metrics summaries
InitMetrics == \E d \in MetricsDbs : Start(d)

SpecMetrics == InitMetrics /\ [][Next]_vars

(***************************************************************************)
(* Properties.                                                             *)
(***************************************************************************)

AfterSplit == pc \notin {"connect", "load_market"}

Done == pc = "done"

\* C1: for a price series of N rows the split labels exactly N points, in
\* the order read, rows [0, floor(7N/10)) train, [floor(7N/10),
\* floor(9N/10)) validation and the rest test.
C1_SplitAtExactFloors ==
    AfterSplit =>
        LET n == Len(db.market)
        IN  /\ Len(market_data) = n
            /\ \A i \in 1..n :
                /\ market_data[i].date = db.market[i].date
                /\ market_data[i].close = db.market[i].close
                /\ market_data[i].split =
                       IF i <= (7 * n) \div 10 THEN "train"
                       ELSE IF i <= (9 * n) \div 10 THEN "validation"
                       ELSE "test"

\* C2: a run over an empty price series ends with the "no data available"
\* warning and nothing else: no error is shown.
C2_EmptySeriesIsNoData ==
    (Done /\ db.market = << >>) =>
        /\ market_data = << >>
        /\ notices = << "warning: no data available" >>

\* a model's own forecast stream loads: its table can be read, and the
\* return-denominated one has its three numeric columns
StreamLoads(d, m) ==
    /\ d.tables[m].present
    /\ m = "dnn" => NumericCols \subseteq d.tables[m].cols

\* C4: a run over a non-empty price series delivers the partitioned series
\* and the forecasts and metrics of every model whose own stream loads,
\* whatever happens to the other models' streams, and shows no loading error.
C4_ModelFailureContained ==
    (Done /\ db.market # << >>) =>
        /\ delivered
        /\ "error: loading data" \notin { notices[i] : i \in 1..Len(notices) }
        /\ \A m \in Models : StreamLoads(db, m) => predictions[m].loaded

\* C10: a finished run acquired the connection exactly once and has
\* released it.
C10_HandleReleased ==
    Done => (acquired = 1 /\ conn = "closed")

\* the price a return of v percent implies on a close of c
ImpliedPrice(c, v) ==
    IF IsRational(v)
    THEN Frac(c * (100 * v.a[2] + v.a[1]), 100 * v.a[2])
    ELSE NaN

BandsShown == pc \in {"tab3", "close", "done"}

\* the rows of the trailing window of row i that hold a relative error
Observations(band, i) ==
    { j \in 1..i : j > i - 20 /\ IsRational(band[j].error) }

\* C5: at every band point whose trailing window holds at least one
\* observation, the first point included, the rolling std is defined, and so
\* are the upper and lower band where the point's own forecast is a number.
C5_StdDefinedFromFirstPoint ==
    \A m \in Models : \A i \in 1..Len(bands[m]) :
        Observations(bands[m], i) # {} =>
            /\ IsNum(bands[m][i].std)
            /\ IsNum(bands[m][i].predicted) =>
                   (IsNum(bands[m][i].upper) /\ IsNum(bands[m][i].lower))

\* C7: at every band point with a numeric forecast and a defined std,
\* lower <= predicted <= upper.
C7_BandBrackets ==
    \A m \in Models : \A i \in 1..Len(bands[m]) :
        (IsNum(bands[m][i].std) /\ IsNum(bands[m][i].predicted)) =>
            /\ FLeq(bands[m][i].lower, bands[m][i].predicted)
            /\ FLeq(bands[m][i].predicted, bands[m][i].upper)

\* the sample std of the observations of the window of row i, from their mean
StdOfObservations(band, i) ==
    LET J    == Observations(band, i)
        n    == Cardinality(J)
        e    == [j \in J |-> band[j].error]
        mean == FDiv(SumOf(e, J), Flt(n))
        dev  == [j \in J |-> FMul(FSub(e[j], mean), FSub(e[j], mean))]
    IN  IF n = 0 THEN NaN ELSE FSqrt(FDiv(SumOf(dev, J), Flt(n - 1)))

\* C9: a row whose forecast is zero or missing leaves the band defined at
\* every later point within its window that has a valid forecast and
\* relative error of its own, and the std there is that of the remaining
\* observations of the window.
C9_ExcludedRowKeepsBand ==
    \A m \in Models : \A i, j \in 1..Len(bands[m]) :
        ( /\ i < j /\ j - i < 20
          /\ (~IsNum(bands[m][i].predicted) \/ IsZero(bands[m][i].predicted))
          /\ IsRational(bands[m][j].error) ) =>
            /\ IsNum(bands[m][j].upper)
            /\ IsNum(bands[m][j].lower)
            /\ bands[m][j].std = StdOfObservations(bands[m], j)

\* the bands a run over database d draws
RunBands(d) ==
    LET md    == SplitMarket(d.market)
        start == md[ValEnd(Len(md)) + 1].date
        preds == [m \in Models |-> BuildPredictions(md, m, d.tables[m], start)]
    IN  PlotTestPredictions(md, preds).bands

\* the databases that differ from d in one value, each with the date of
\* that value: the close of one of the rows whose closes vary, or the
\* predicted value of one forecast row
Variants(d) ==
    { [date |-> d.market[j].date, db |-> [d EXCEPT !.market[j].close = c]] :
        j \in (Len(d.market) - TailRows + 1)..Len(d.market), c \in CloseVals }
    \cup
    UNION { { [date |-> r.date,
               db |-> [d EXCEPT !.tables[m].rows =
                          (@ \ {r}) \cup {[r EXCEPT !.predicted_value = v]}]] :
                r \in d.tables[m].rows, v \in {Flt(1), Flt(100)} } :
            m \in Models }

\* C6: a run over a database that differs only in a close or a predicted
\* value at a date after T draws the same upper and lower band at every
\* date up to T.
C6_BandCausal ==
    (BandsShown /\ delivered) =>
        \A v \in Variants(db) : \A m \in Models : \A i \in 1..Len(bands[m]) :
            bands[m][i].date < v.date =>
                /\ RunBands(v.db)[m][i].upper = bands[m][i].upper
                /\ RunBands(v.db)[m][i].lower = bands[m][i].lower

\* C8: the chart holds one bar for each model that has a summary row and
\* none for the others; the bar of a model is its latest row's win rate
\* less its unconditional win rate.
C8_EdgePerModel ==
    pc \in {"close", "done"} =>
        \A m \in Models :
            LET rows == { r \in db.perf : r.model = m }
                bars == { i \in 1..Len(edges) : edges[i].model = m }
            IN  IF rows = {} THEN bars = {}
                ELSE /\ Cardinality(bars) = 1
                     /\ \A i \in bars : \E r \in rows :
                            /\ \A o \in rows : o.date <= r.date
                            /\ FAdd(edges[i].edge, r.uncond_win_rate) = r.win_rate

\* 55.0 against 50.0 shows +5.0, 40.0 against 52.0 shows -12.0, and a model
\* without a summary row shows nothing
C8_Witness ==
    /\ pc = "done"
    /\ \E i \in 1..Len(edges) : edges[i] = [model |-> "arima", edge |-> Flt(5)]
    /\ \E i \in 1..Len(edges) : edges[i] = [model |-> "dnn", edge |-> Flt(0 - 12)]
    /\ \A i \in 1..Len(edges) : edges[i].model # "prophet"
    /\ \A r \in db.perf : r.model # "prophet"

====
